---------------------------- MODULE Spec2Model ----------------------------
(***************************************************************************)
(* The notebook AD2CP-angles.ipynb: the function angle_from_vertical and   *)
(* the cells that call it.                                                 *)
(*                                                                         *)
(* numpy's float64 is modelled as signed decimal fixed point.  A number is *)
(* <<sign, magnitude>>, the magnitude a tuple of six limbs in base 10^4:   *)
(* one integer limb and five fractional ones (unit 1e-20).  A float64      *)
(* result is a number rounded to 16 fractional digits (unit 1e-16, the     *)
(* spacing of the doubles just below 1); the library functions compute at  *)
(* 20 digits and round to nearest, as a libm with sub-ulp error does.      *)
(***************************************************************************)
EXTENDS Integers, Sequences, FiniteSets, TLC

----------------------------------------------------------------------------
(* Magnitudes: <<a1, a2, a3, a4, a5, a6>> is a1 + a2/B + ... + a6/B^5.     *)

Base == 100 * 100

ZeroM == <<0, 0, 0, 0, 0, 0>>
OneM == <<1, 0, 0, 0, 0, 0>>

\* One step of carry propagation, from the right: acc = <<carry into this
\* column, limbs settled so far>>.
Carry(c, acc) == <<(c + acc[1]) \div Base, <<(c + acc[1]) % Base>> \o acc[2]>>

CarryTop(c, acc) == <<c + acc[1]>> \o acc[2]

\* Carry propagation over column sums c1..c6, c7 being a guard column of
\* which only the carry is kept.
Norm(c1, c2, c3, c4, c5, c6, c7) ==
    CarryTop(c1, Carry(c2, Carry(c3, Carry(c4, Carry(c5, Carry(c6,
        <<c7 \div Base, <<>>>>))))))

AddM(a, b) ==
    Norm(a[1] + b[1], a[2] + b[2], a[3] + b[3], a[4] + b[4], a[5] + b[5],
         a[6] + b[6], 0)

\* a - b for a >= b.
SubM(a, b) ==
    Norm(a[1] - b[1], a[2] - b[2], a[3] - b[3], a[4] - b[4], a[5] - b[5],
         a[6] - b[6], 0)

\* -1, 0, 1 as a < b, a = b, a > b.
CmpM(a, b) ==
    IF a[1] # b[1] THEN (IF a[1] < b[1] THEN -1 ELSE 1)
    ELSE IF a[2] # b[2] THEN (IF a[2] < b[2] THEN -1 ELSE 1)
    ELSE IF a[3] # b[3] THEN (IF a[3] < b[3] THEN -1 ELSE 1)
    ELSE IF a[4] # b[4] THEN (IF a[4] < b[4] THEN -1 ELSE 1)
    ELSE IF a[5] # b[5] THEN (IF a[5] < b[5] THEN -1 ELSE 1)
    ELSE IF a[6] # b[6] THEN (IF a[6] < b[6] THEN -1 ELSE 1)
    ELSE 0

\* The product, truncated to 20 fractional digits.
MulM(a, b) ==
    Norm(a[1] * b[1],
         a[1] * b[2] + a[2] * b[1],
         a[1] * b[3] + a[2] * b[2] + a[3] * b[1],
         a[1] * b[4] + a[2] * b[3] + a[3] * b[2] + a[4] * b[1],
         a[1] * b[5] + a[2] * b[4] + a[3] * b[3] + a[4] * b[2] + a[5] * b[1],
         a[1] * b[6] + a[2] * b[5] + a[3] * b[4] + a[4] * b[3] + a[5] * b[2]
           + a[6] * b[1],
         a[2] * b[6] + a[3] * b[5] + a[4] * b[4] + a[5] * b[3] + a[6] * b[2])

\* a / n for an integer 0 < n < 200000, truncated.
DivStep(d, n, acc) ==
    <<(acc[1] * Base + d) % n, Append(acc[2], (acc[1] * Base + d) \div n)>>

DivSmallM(a, n) ==
    DivStep(a[6], n, DivStep(a[5], n, DivStep(a[4], n, DivStep(a[3], n,
        DivStep(a[2], n, <<a[1] % n, <<a[1] \div n>>>>)))))[2]

\* Rounding to 16 fractional digits, to nearest, halves away from zero.
Round16M(a) ==
    Norm(a[1], a[2], a[3], a[4], a[5] + (IF a[6] >= Base \div 2 THEN 1 ELSE 0),
         0, 0)

----------------------------------------------------------------------------
(* Signed numbers <<s, m>>: s is 1 or -1 (zero has sign 1), m a magnitude.  *)
(* NaN is the result of arccos outside its domain.                          *)

NaN == <<0, ZeroM>>

IsNaN(x) == x[1] = 0

Mk(s, m) == IF m = ZeroM THEN <<1, m>> ELSE <<s, m>>

Neg(x) == Mk(-x[1], x[2])

Add(x, y) ==
    IF IsNaN(x) \/ IsNaN(y) THEN NaN
    ELSE IF x[1] = y[1] THEN Mk(x[1], AddM(x[2], y[2]))
    ELSE IF CmpM(x[2], y[2]) >= 0 THEN Mk(x[1], SubM(x[2], y[2]))
    ELSE Mk(y[1], SubM(y[2], x[2]))

Sub(x, y) == Add(x, Neg(y))

\* A float64 product: the product rounded to 16 digits.
Mul(x, y) ==
    IF IsNaN(x) \/ IsNaN(y) THEN NaN
    ELSE Mk(x[1] * y[1], Round16M(MulM(x[2], y[2])))

\* x <= y, for numbers that are not NaN.
Leq(x, y) ==
    IF x[1] # y[1] THEN x[1] < y[1]
    ELSE IF x[1] = 1 THEN CmpM(x[2], y[2]) <= 0
    ELSE CmpM(x[2], y[2]) >= 0

----------------------------------------------------------------------------
(* pi and what numpy derives from it, to 20 digits.                         *)

PiM == <<3, 1415, 9265, 3589, 7932, 3846>>
TwoPiM == AddM(PiM, PiM)
HalfPiM == DivSmallM(PiM, 2)
QuarterPiM == DivSmallM(PiM, 4)
\* pi / 180 and 180 / pi
DegToRadM == <<0, 174, 5329, 2519, 9432, 9577>>
RadToDegM == <<57, 2957, 7951, 3082, 3208, 7680>>

\* An alternating Taylor series, summed until its term vanishes at 20
\* digits.  st = <<k, t, plus, minus, odd>>: t is the magnitude of the
\* current term, the next being t * x2 / ((k + 1) * (k + 2)); plus and
\* minus are the sums of the terms added and subtracted so far.
RECURSIVE AltSeries(_, _)
AltSeries(x2, st) ==
    IF st[2] = ZeroM THEN SubM(st[3], st[4])
    ELSE AltSeries(x2,
           <<st[1] + 2,
             DivSmallM(MulM(x2, st[2]), (st[1] + 1) * (st[1] + 2)),
             IF st[5] = 0 THEN AddM(st[3], st[2]) ELSE st[3],
             IF st[5] = 1 THEN AddM(st[4], st[2]) ELSE st[4],
             1 - st[5]>>)

\* cos and sin of a magnitude in [0, pi/4] (and a little beyond).
CosSmallM(a) == AltSeries(MulM(a, a), <<0, OneM, ZeroM, ZeroM, 0>>)
SinSmallM(a) == AltSeries(MulM(a, a), <<1, a, ZeroM, ZeroM, 0>>)

\* a reduced into [0, 2 pi).
RECURSIVE Mod2PiM(_)
Mod2PiM(a) == IF CmpM(a, TwoPiM) >= 0 THEN Mod2PiM(SubM(a, TwoPiM)) ELSE a

\* cos of a magnitude in [0, pi], to 20 digits, signed.
CosOnHalfTurn(a) ==
    IF CmpM(a, QuarterPiM) <= 0 THEN Mk(1, CosSmallM(a))
    ELSE IF CmpM(a, HalfPiM) <= 0 THEN Mk(1, SinSmallM(SubM(HalfPiM, a)))
    ELSE IF CmpM(a, SubM(PiM, QuarterPiM)) <= 0 THEN Mk(-1, SinSmallM(SubM(a, HalfPiM)))
    ELSE Mk(-1, CosSmallM(SubM(PiM, a)))

\* np.cos: even, of period 2 pi, the result rounded to 16 digits.
FoldHalfTurn(a) == IF CmpM(a, PiM) > 0 THEN SubM(TwoPiM, a) ELSE a

Round16(c) == Mk(c[1], Round16M(c[2]))

NpCos(x) ==
    IF IsNaN(x) THEN NaN
    ELSE Round16(CosOnHalfTurn(FoldHalfTurn(Mod2PiM(x[2]))))

\* 1 / c for c in [1/2, 1]: a four-digit quotient refined by Newton steps
\* r <- r (2 - c r); st = <<steps left, r>>.
RECURSIVE RecipNewton(_, _)
RecipNewton(c, st) ==
    IF st[1] = 0 THEN st[2]
    ELSE RecipNewton(c, <<st[1] - 1,
                          MulM(st[2], SubM(<<2, 0, 0, 0, 0, 0>>, MulM(c, st[2])))>>)

RecipGuess(q) == <<q \div Base, q % Base, 0, 0, 0, 0>>

RecipM(c) ==
    RecipNewton(c, <<3, RecipGuess((Base * Base) \div (c[1] * Base + c[2]))>>)

\* The integer square root of i < Base^2, by bisection.
RECURSIVE ISqrtIn(_, _, _)
ISqrtIn(i, lo, hi) ==
    IF lo = hi THEN lo
    ELSE IF ((lo + hi + 1) \div 2) * ((lo + hi + 1) \div 2) <= i
    THEN ISqrtIn(i, (lo + hi + 1) \div 2, hi)
    ELSE ISqrtIn(i, lo, ((lo + hi + 1) \div 2) - 1)

ISqrt(i) == ISqrtIn(i, 0, Base - 1)

\* 1 / sqrt(g) for g in [Base^-2, 1), by Newton steps y <- y + y (1 - g y^2) / 2
\* from a guess within one percent; st = <<steps left, y>>.
\* t = g y^2
InvSqrtStep(y, t) ==
    IF CmpM(t, OneM) <= 0
    THEN AddM(y, DivSmallM(MulM(y, SubM(OneM, t)), 2))
    ELSE SubM(y, DivSmallM(MulM(y, SubM(t, OneM)), 2))

RECURSIVE InvSqrtNewton(_, _)
InvSqrtNewton(g, st) ==
    IF st[1] = 0 THEN st[2]
    ELSE InvSqrtNewton(g, <<st[1] - 1, InvSqrtStep(st[2], MulM(MulM(g, st[2]), st[2]))>>)

InvSqrtGuess(g) ==
    IF g[2] = 0
    THEN DivSmallM(<<100 * Base, 0, 0, 0, 0, 0>>, ISqrt(g[3] * Base + g[4]))
    ELSE DivSmallM(<<Base, 0, 0, 0, 0, 0>>, ISqrt(g[2] * Base + g[3]))

\* sqrt(g) = g / sqrt(g), for g in [Base^-2, 1).
SqrtUnit(g) == MulM(g, InvSqrtNewton(g, <<4, InvSqrtGuess(g)>>))

\* The square root of a magnitude h below 1, to 20 digits.  h is scaled by
\* an even power of Base into [Base^-2, 1), so that small h keep their
\* relative precision, and the root is scaled back.
ShiftRight1(r) == <<0, 0, r[2], r[3], r[4], r[5]>>

ShiftRight2(r) == <<0, 0, 0, r[2], r[3], r[4]>>

SqrtM(h) ==
    IF h[2] # 0 \/ h[3] # 0 THEN SqrtUnit(h)
    ELSE IF h[4] # 0 \/ h[5] # 0 THEN ShiftRight1(SqrtUnit(<<0, h[4], h[5], h[6], 0, 0>>))
    ELSE IF h[6] # 0 THEN ShiftRight2(SqrtUnit(<<0, h[6], 0, 0, 0, 0>>))
    ELSE ZeroM

\* The Newton correction (s - sin phi) / cos phi as <<direction, magnitude>>,
\* sn being sin phi.
ArcSinCorrection(s, phi, sn) ==
    IF CmpM(s, sn) >= 0
    THEN <<1, MulM(SubM(s, sn), RecipM(CosSmallM(phi)))>>
    ELSE <<-1, MulM(SubM(sn, s), RecipM(CosSmallM(phi)))>>

ArcSinCorrected(phi, d) == IF d[1] = 1 THEN AddM(phi, d[2]) ELSE SubM(phi, d[2])

\* arcsin of a magnitude s in [0, sqrt(1/2)], by Newton's method on sin from
\* s + s^3/6 + 3 s^5/40, until the correction is below Base^-3 (the next
\* one is then below 1e-20); st = <<steps left, phi, correction to phi>>.
RECURSIVE ArcSinNewton(_, _)
ArcSinNewton(s, st) ==
    IF st[1] = 0 \/ (st[3][2][1] = 0 /\ st[3][2][2] = 0 /\ st[3][2][3] = 0 /\ st[3][2][4] = 0)
    THEN ArcSinCorrected(st[2], st[3])
    ELSE ArcSinNewton(s, <<st[1] - 1, ArcSinCorrected(st[2], st[3]),
                           ArcSinCorrection(s, ArcSinCorrected(st[2], st[3]),
                                            SinSmallM(ArcSinCorrected(st[2], st[3])))>>)

ArcSinGuess(s, s3, s5) ==
    AddM(s, AddM(DivSmallM(s3, 6), DivSmallM(AddM(s5, AddM(s5, s5)), 40)))

ArcSinStart(s, phi) == <<8, phi, ArcSinCorrection(s, phi, SinSmallM(phi))>>

ArcSinM(s) ==
    ArcSinNewton(s, ArcSinStart(s, ArcSinGuess(s, MulM(s, MulM(s, s)),
                                               MulM(MulM(s, MulM(s, s)), MulM(s, s)))))

\* np.arccos: NaN outside [-1, 1]; inside, 2 arcsin(sqrt((1 - |y|) / 2)),
\* reflected about pi/2 for y < 0, rounded to 16 digits.
\* A wrong branch of the inverse cosine: negative arguments reflected about
\* pi instead of pi/2.
ArccosWrongBranch(sgn, phi) ==
    Mk(1, Round16M(IF sgn = 1 THEN AddM(phi, phi) ELSE SubM(TwoPiM, AddM(phi, phi))))

ArccosOfHalf(sgn, phi) ==
    Mk(1, Round16M(IF sgn = 1 THEN AddM(phi, phi) ELSE SubM(PiM, AddM(phi, phi))))

NpArccos(y) ==
    IF IsNaN(y) \/ CmpM(y[2], OneM) > 0 THEN NaN
    ELSE ArccosOfHalf(y[1], ArcSinM(SqrtM(DivSmallM(SubM(OneM, y[2]), 2))))

\* The conversion to radians left out.
NoConversion(x) == x

\* The conversion to degrees with 180 / pi cut to 57.3.
CoarseRad2deg(x) ==
    IF IsNaN(x) THEN NaN ELSE Mk(x[1], Round16M(MulM(x[2], <<57, 3000, 0, 0, 0, 0>>)))

\* np.deg2rad(x) is x * (pi / 180), np.rad2deg(x) is x * (180 / pi).
NpDeg2rad(x) == IF IsNaN(x) THEN NaN ELSE Mk(x[1], Round16M(MulM(x[2], DegToRadM)))

NpRad2deg(x) == IF IsNaN(x) THEN NaN ELSE Mk(x[1], Round16M(MulM(x[2], RadToDegM)))

----------------------------------------------------------------------------
(* f"{x:.3f}": the decimal string of x rounded to three decimals, halves   *)
(* to even.                                                                *)

DigitChar(d) == <<"0", "1", "2", "3", "4", "5", "6", "7", "8", "9">>[d + 1]

RECURSIVE IntToStr(_)
IntToStr(n) == IF n < 10 THEN DigitChar(n) ELSE IntToStr(n \div 10) \o DigitChar(n % 10)

\* The magnitude in thousandths, rounded.
RoundMilli(q, rest) ==
    IF rest = <<5, 0, 0, 0, 0>> THEN q + (q % 2)
    ELSE IF rest[1] >= 5 THEN q + 1
    ELSE q

Milli(m) ==
    RoundMilli(m[1] * 1000 + (m[2] \div 10), <<m[2] % 10, m[3], m[4], m[5], m[6]>>)

\* sgn and n thousandths as text.
Fixed3(sgn, n) ==
    (IF sgn = -1 THEN "-" ELSE "") \o IntToStr(n \div 1000) \o "."
    \o DigitChar((n % 1000) \div 100) \o DigitChar((n \div 10) % 10) \o DigitChar(n % 10)

Format3f(x) == IF IsNaN(x) THEN "nan" ELSE Fixed3(x[1], Milli(x[2]))

----------------------------------------------------------------------------
(* angle_from_vertical: the four beam angles, in degrees.                  *)

\* Slips in the arguments of the arccos calls: a sum for the product, the
\* fore formula for the aft beam, the pitch and roll factors paired wrongly.
CosSum1(angle_fa, phi_pitch, phi_roll) ==
    Add(NpCos(Sub(angle_fa, phi_pitch)), NpCos(phi_roll))

CosProduct3AsFore(angle_fa, phi_pitch, phi_roll) ==
    Mul(NpCos(Sub(angle_fa, phi_pitch)), NpCos(phi_roll))

CosProduct3Paired(angle_fa, phi_pitch, phi_roll) ==
    Mul(NpCos(Add(angle_fa, phi_pitch)), NpCos(phi_pitch))

CosProduct4Paired(angle_ps, phi_pitch, phi_roll) ==
    Mul(NpCos(Add(angle_ps, phi_roll)), NpCos(phi_roll))

\* The arguments of the four arccos calls.
CosProduct1(angle_fa, phi_pitch, phi_roll) ==
    Mul(NpCos(Sub(angle_fa, phi_pitch)), NpCos(phi_roll))

CosProduct2(angle_ps, phi_pitch, phi_roll) ==
    Mul(NpCos(Sub(angle_ps, phi_roll)), NpCos(phi_pitch))

CosProduct3(angle_fa, phi_pitch, phi_roll) ==
    Mul(NpCos(Add(angle_fa, phi_pitch)), NpCos(phi_roll))

CosProduct4(angle_ps, phi_pitch, phi_roll) ==
    Mul(NpCos(Add(angle_ps, phi_roll)), NpCos(phi_pitch))

\* acos_arg records what np.arccos was called with.
\* The conversions to radians.
Radians(fore_aft_angle, port_starboard_angle, pitch, roll) ==
    [phi_pitch |-> NpDeg2rad(pitch),
     phi_roll |-> NpDeg2rad(roll),
     angle_fa |-> NpDeg2rad(fore_aft_angle),
     angle_ps |-> NpDeg2rad(port_starboard_angle)]

\* The port beam computed from the fore-aft mounting angle.
AcosArgsCrossed(rad) ==
    <<CosProduct1(rad.angle_fa, rad.phi_pitch, rad.phi_roll),
      CosProduct2(rad.angle_fa, rad.phi_pitch, rad.phi_roll),
      CosProduct3(rad.angle_fa, rad.phi_pitch, rad.phi_roll),
      CosProduct4(rad.angle_ps, rad.phi_pitch, rad.phi_roll)>>

AcosArgs(rad) ==
    <<CosProduct1(rad.angle_fa, rad.phi_pitch, rad.phi_roll),
      CosProduct2(rad.angle_ps, rad.phi_pitch, rad.phi_roll),
      CosProduct3(rad.angle_fa, rad.phi_pitch, rad.phi_roll),
      CosProduct4(rad.angle_ps, rad.phi_pitch, rad.phi_roll)>>

Theta(acos_arg) == NpRad2deg(NpArccos(acos_arg))

Thetas(params, acos_arg) ==
    [fore_aft_angle |-> params[1],
     port_starboard_angle |-> params[2],
     pitch |-> params[3],
     roll |-> params[4],
     acos_arg |-> acos_arg,
     theta_1 |-> Theta(acos_arg[1]),
     theta_2 |-> Theta(acos_arg[2]),
     theta_3 |-> Theta(acos_arg[3]),
     theta_4 |-> Theta(acos_arg[4])]

\* The body up to the print: the parameters and the locals of the call.
Locals(fore_aft_angle, port_starboard_angle, pitch, roll) ==
    Thetas(<<fore_aft_angle, port_starboard_angle, pitch, roll>>,
           AcosArgs(Radians(fore_aft_angle, port_starboard_angle, pitch, roll)))

\* The port and aft lines in each other's place.
PrintedLinesSwapped(t1, t2, t3, t4) ==
    <<"fore angle: " \o Format3f(t1),
      "aft angle: " \o Format3f(t3),
      "port angle: " \o Format3f(t2),
      "stbd angle: " \o Format3f(t4)>>

\* The text of the print call, line by line.
PrintedLines(t1, t2, t3, t4) ==
    <<"fore angle: " \o Format3f(t1),
      "port angle: " \o Format3f(t2),
      "aft angle: " \o Format3f(t3),
      "stbd angle: " \o Format3f(t4)>>

----------------------------------------------------------------------------
(* The cells of the notebook: each calls angle_from_vertical once, with    *)
(* some of its arguments given and the others left to their defaults.      *)

\* u millionths of a degree.
MicroM(w) == <<w \div 1000000, (w \div 100) % Base, (w % 100) * 100, 0, 0, 0>>

Deg(u) == IF u < 0 THEN Mk(-1, MicroM(-u)) ELSE Mk(1, MicroM(u))

Tenths(t) == Deg(t * 100000)

Omitted == <<>>

DefaultForeAftAngle == Tenths(475)
DefaultPortStarboardAngle == Tenths(250)
DefaultPitch == Tenths(0)
DefaultRoll == Tenths(0)

\* The arguments a cell may write.
ForeAftGiven == {Omitted, Tenths(548), Tenths(521), Deg(1), Deg(10000)}
PortStarboardGiven == {Omitted, Tenths(132), Tenths(211), Deg(179990000)}
PitchGiven == {Omitted, Tenths(174), Tenths(-174), Tenths(220), Tenths(2000), Tenths(-2000)}
RollGiven == {Omitted, Tenths(1000), Tenths(-1000)}

CellCalls == ForeAftGiven \X PortStarboardGiven \X PitchGiven \X RollGiven

OrDefault(given, default) == IF given = Omitted THEN default ELSE given

\* The parameters as bound by the call.
Bound(c) ==
    <<OrDefault(c[1], DefaultForeAftAngle), OrDefault(c[2], DefaultPortStarboardAngle),
      OrDefault(c[3], DefaultPitch), OrDefault(c[4], DefaultRoll)>>

Inputs == {Bound(c) : c \in CellCalls}

\* The function over the inputs of the model, tabulated.
LocalsOf == [a \in Inputs |-> Locals(a[1], a[2], a[3], a[4])] @@ <<>>

\* The reference equations of the notebook, on angles in radians.
RefTheta1(vartheta_fa, vartheta_ps, phi_pitch, phi_roll) ==
    NpArccos(Mul(NpCos(Sub(vartheta_fa, phi_pitch)), NpCos(phi_roll)))

RefTheta2(vartheta_fa, vartheta_ps, phi_pitch, phi_roll) ==
    NpArccos(Mul(NpCos(Sub(vartheta_ps, phi_roll)), NpCos(phi_pitch)))

RefTheta3(vartheta_fa, vartheta_ps, phi_pitch, phi_roll) ==
    NpArccos(Mul(NpCos(Add(vartheta_fa, phi_pitch)), NpCos(phi_roll)))

RefTheta4(vartheta_fa, vartheta_ps, phi_pitch, phi_roll) ==
    NpArccos(Mul(NpCos(Add(vartheta_ps, phi_roll)), NpCos(phi_pitch)))

\* (fore, port, aft, starboard) by the reference equations, in degrees.
Reference(rad) ==
    <<NpRad2deg(RefTheta1(rad.angle_fa, rad.angle_ps, rad.phi_pitch, rad.phi_roll)),
      NpRad2deg(RefTheta2(rad.angle_fa, rad.angle_ps, rad.phi_pitch, rad.phi_roll)),
      NpRad2deg(RefTheta3(rad.angle_fa, rad.angle_ps, rad.phi_pitch, rad.phi_roll)),
      NpRad2deg(RefTheta4(rad.angle_fa, rad.angle_ps, rad.phi_pitch, rad.phi_roll))>>

ReferenceOf == [a \in Inputs |-> Reference(Radians(a[1], a[2], a[3], a[4]))] @@ <<>>

\* What the notebook shows under its cells, in thousandths of a degree.
Documented ==
    {[call |-> <<Omitted, Omitted, Omitted, Omitted>>,
      out |-> <<47500, 25000, 47500, 25000>>],
     [call |-> <<Omitted, Omitted, Tenths(174), Omitted>>,
      out |-> <<30100, 30136, 64900, 30136>>],
     [call |-> <<Omitted, Omitted, Tenths(-174), Omitted>>,
      out |-> <<64900, 30136, 30100, 30136>>],
     [call |-> <<Tenths(548), Omitted, Tenths(220), Omitted>>,
      out |-> <<32800, 32827, 76800, 32827>>],
     [call |-> <<Omitted, Tenths(132), Tenths(220), Omitted>>,
      out |-> <<25500, 25487, 69500, 25487>>],
     [call |-> <<Tenths(521), Tenths(211), Tenths(220), Omitted>>,
      out |-> <<30100, 30115, 74100, 30115>>]}

None == <<>>

VARIABLES
    pc,       \* where the kernel is: "idle", or in a call at "print", "return", or "done"
    cell,     \* the arguments written in the running cell
    frame,    \* the parameters and locals of the call in progress
    stdout,   \* the lines of the running cell's output
    result,   \* the tuple the call returned
    prev      \* history: some earlier cell of the session, its arguments and its result

vars == <<pc, cell, frame, stdout, result, prev>>

Init ==
    /\ pc = "idle"
    /\ cell = None
    /\ frame = None
    /\ stdout = <<>>
    /\ result = None
    /\ prev = None

\* phi_roll kept in a global that the call before has set.
CallStaleRoll(c) ==
    /\ pc = "idle"
    /\ cell' = c
    /\ frame' = LocalsOf[<<Bound(c)[1], Bound(c)[2], Bound(c)[3],
                           IF prev = None THEN Bound(c)[4] ELSE Bound(prev.cell)[4]>>]
    /\ pc' = "print"
    /\ UNCHANGED <<stdout, result, prev>>

\* A cell calls angle_from_vertical: the parameters are bound and the body
\* runs up to the print.
Call(c) ==
    /\ pc = "idle"
    /\ cell' = c
    /\ frame' = LocalsOf[Bound(c)]
    /\ pc' = "print"
    /\ UNCHANGED <<stdout, result, prev>>

PrintCall ==
    /\ pc = "print"
    /\ stdout' = stdout \o PrintedLines(frame.theta_1, frame.theta_2, frame.theta_3,
                                       frame.theta_4)
    /\ pc' = "return"
    /\ UNCHANGED <<cell, frame, result, prev>>

Return ==
    /\ pc = "return"
    /\ result' = <<frame.theta_1, frame.theta_2, frame.theta_3, frame.theta_4>>
    /\ frame' = None
    /\ pc' = "done"
    /\ UNCHANGED <<cell, stdout, prev>>

\* The cell is over: its result is dropped (the cells end in ";") and the
\* next cell gets an output area of its own.
NextCell ==
    /\ pc = "done"
    /\ pc' = "idle"
    /\ cell' = None
    /\ stdout' = <<>>
    /\ result' = None
    /\ frame' = frame
    /\ \/ prev' = prev
       \/ prev' = [cell |-> cell, result |-> result]

Next ==
    \/ \E c \in CellCalls : Call(c)
    \/ PrintCall
    \/ Return
    \/ NextCell

Spec == Init /\ [][Next]_vars

----------------------------------------------------------------------------
(* What is checked of the notebook.                                        *)

\* The call of the running cell has returned.
Returned == pc = "done"

\* The parameters of the running cell's call.
Args == Bound(cell)

\* The parameters of the cell kept in prev.
PrevArgs == Bound(prev.cell)

Zero == Tenths(0)

\* |x - y| <= tol, for a magnitude tol.
Within(x, y, tol) == CmpM(Sub(x, y)[2], tol) <= 0

\* 1e-9 and 0.05
Tol9 == <<0, 0, 0, 1000, 0, 0>>
HalfTenth == <<0, 500, 0, 0, 0, 0>>

InRange(x, lo, hi) == Leq(lo, x) /\ Leq(x, hi)

Thousandths(t) == <<Milli(t[1][2]), Milli(t[2][2]), Milli(t[3][2]), Milli(t[4][2])>>

\* C1: the tuple a call returns is (fore, port, aft, starboard) as the
\* reference equations of the notebook give them for the parameters
\* converted to radians, in degrees.
C1_AgreesWithReference == Returned => result = ReferenceOf[Args]

\* A call with pitch, roll and both mounting angles given that returned
\* four different angles, those of the reference.
C1_Witness ==
    /\ Returned
    /\ cell = <<Tenths(548), Tenths(132), Tenths(220), Tenths(1000)>>
    /\ result = ReferenceOf[Args]
    /\ Cardinality({result[1], result[2], result[3], result[4]}) = 4

\* C2: each of the four returned angles lies in [0, 180] degrees, for
\* negative parameters and parameters beyond 90 and 180 degrees too.
C2_AnglesInRange ==
    Returned => \A i \in 1..4 : ~IsNaN(result[i]) /\ InRange(result[i], Zero, Tenths(1800))

\* A call with pitch 200 and roll -100 returned an angle above 90 degrees.
C2_Witness ==
    /\ Returned
    /\ Args[3] = Tenths(2000)
    /\ Args[4] = Tenths(-1000)
    /\ \E i \in 1..4 : InRange(result[i], Tenths(901), Tenths(1800))

\* C3: what each arccos is called with lies in [-1, 1], no angle is NaN,
\* and what is returned is a 4-tuple; the only states of a call are those
\* of its body, none of them a failure.
C3_NeverFails ==
    /\ pc \in {"idle", "print", "return", "done"}
    /\ pc \in {"print", "return"} =>
         /\ \A i \in 1..4 : /\ ~IsNaN(frame.acos_arg[i])
                            /\ CmpM(frame.acos_arg[i][2], OneM) <= 0
         /\ ~IsNaN(frame.theta_1) /\ ~IsNaN(frame.theta_2)
         /\ ~IsNaN(frame.theta_3) /\ ~IsNaN(frame.theta_4)
    /\ Returned => Len(result) = 4 /\ \A i \in 1..4 : ~IsNaN(result[i])

\* A call with pitch beyond 180 degrees whose arccos arguments are of both
\* signs.
C3_Witness ==
    /\ pc = "print"
    /\ frame.pitch = Tenths(-2000)
    /\ frame.roll = Tenths(1000)
    /\ \E i, j \in 1..4 : frame.acos_arg[i][1] = 1 /\ frame.acos_arg[j][1] = -1
    /\ \A i \in 1..4 : CmpM(frame.acos_arg[i][2], OneM) <= 0

\* C4: with roll 0 and the same mounting angles, a call with pitch p and an
\* earlier call with pitch -p return each other's fore and aft angles.
C4_PitchSymmetry ==
    (/\ Returned
     /\ prev # None
     /\ Args[4] = Zero
     /\ PrevArgs[4] = Zero
     /\ Args[1] = PrevArgs[1]
     /\ Args[2] = PrevArgs[2]
     /\ Args[3] = Neg(PrevArgs[3]))
    => result[3] = prev.result[1] /\ result[1] = prev.result[3]

\* The cells pitch=-17.4 and pitch=17.4 one after the other, fore and aft
\* swapped and different.
C4_Witness ==
    /\ Returned
    /\ prev # None
    /\ cell = <<Omitted, Omitted, Tenths(-174), Omitted>>
    /\ prev.cell = <<Omitted, Omitted, Tenths(174), Omitted>>
    /\ result[3] = prev.result[1]
    /\ result[1] = prev.result[3]
    /\ result[1] # result[3]

\* C5: with the same pitch and mounting angles, a call with roll r and an
\* earlier call with roll -r return each other's port and starboard angles.
C5_RollSymmetry ==
    (/\ Returned
     /\ prev # None
     /\ Args[1] = PrevArgs[1]
     /\ Args[2] = PrevArgs[2]
     /\ Args[3] = PrevArgs[3]
     /\ Args[4] = Neg(PrevArgs[4]))
    => result[2] = prev.result[4] /\ result[4] = prev.result[2]

\* Calls with roll 100 and roll -100 at pitch 17.4, port and starboard
\* swapped and different.
C5_Witness ==
    /\ Returned
    /\ prev # None
    /\ cell = <<Omitted, Omitted, Tenths(174), Tenths(1000)>>
    /\ prev.cell = <<Omitted, Omitted, Tenths(174), Tenths(-1000)>>
    /\ result[2] = prev.result[4]
    /\ result[4] = prev.result[2]
    /\ result[2] # result[4]

FlatCase(lo, hi) ==
    /\ Returned
    /\ Args[3] = Zero
    /\ Args[4] = Zero
    /\ InRange(Args[1], lo, hi)
    /\ InRange(Args[2], lo, hi)

FlatResult ==
    /\ Within(result[1], Args[1], Tol9)
    /\ Within(result[2], Args[2], Tol9)
    /\ Within(result[3], Args[1], Tol9)
    /\ Within(result[4], Args[2], Tol9)

\* C7 as stated: with pitch 0 and roll 0, for mounting angles anywhere in
\* [0, 180] degrees the result is (fore_aft_angle, port_starboard_angle,
\* fore_aft_angle, port_starboard_angle) within 1e-9.
C7_FlatCaseAsStated == FlatCase(Zero, Tenths(1800)) => FlatResult

\* C7, amended: with pitch 0 and roll 0, for mounting angles in
\* [0.01, 179.99] degrees the result is (fore_aft_angle,
\* port_starboard_angle, fore_aft_angle, port_starboard_angle) within 1e-9,
\* and the call with all defaults returns (47.5, 25, 47.5, 25) within 1e-9.
C7_FlatCase ==
    /\ FlatCase(Deg(10000), Deg(179990000)) => FlatResult
    /\ (Returned /\ cell = <<Omitted, Omitted, Omitted, Omitted>>) =>
         /\ Within(result[1], Tenths(475), Tol9)
         /\ Within(result[2], Tenths(250), Tol9)
         /\ Within(result[3], Tenths(475), Tol9)
         /\ Within(result[4], Tenths(250), Tol9)

\* The flat call at both ends of the amended range.
C7_Witness ==
    /\ FlatCase(Deg(10000), Deg(179990000))
    /\ Args[1] = Deg(10000)
    /\ Args[2] = Deg(179990000)
    /\ FlatResult

\* C8: each documented call returns the documented values to three
\* decimals, and at pitch 17.4 and -17.4 with roll 0 the three active beams
\* are at 30.1 degrees to one decimal.
C8_DocumentedValues ==
    Returned =>
      /\ \A d \in Documented : cell = d.call => Thousandths(result) = d.out
      /\ cell = <<Omitted, Omitted, Tenths(174), Omitted>> =>
           \A i \in {1, 2, 4} : Within(result[i], Tenths(301), HalfTenth)
      /\ cell = <<Omitted, Omitted, Tenths(-174), Omitted>> =>
           \A i \in {2, 3, 4} : Within(result[i], Tenths(301), HalfTenth)

\* The last cell of the notebook, with its documented values.
C8_Witness ==
    /\ Returned
    /\ cell = <<Tenths(521), Tenths(211), Tenths(220), Omitted>>
    /\ Thousandths(result) = <<30100, 30115, 74100, 30115>>

\* C9: a call prints nothing until its print, which comes before the
\* return and writes exactly four lines, "fore angle: ", "port angle: ",
\* "aft angle: ", "stbd angle: " in this order, line i holding element i of
\* the returned tuple to three decimals; what is returned is what was
\* computed before the print.
C9_PrintsFourLines ==
    /\ pc \in {"idle", "print"} => stdout = <<>>
    /\ pc \in {"print", "return"} => result = None
    /\ pc = "return" =>
         /\ Len(stdout) = 4
         /\ <<frame.theta_1, frame.theta_2, frame.theta_3, frame.theta_4>>
              = <<LocalsOf[Args].theta_1, LocalsOf[Args].theta_2,
                  LocalsOf[Args].theta_3, LocalsOf[Args].theta_4>>
    /\ Returned =>
         /\ stdout = <<"fore angle: " \o Format3f(result[1]),
                       "port angle: " \o Format3f(result[2]),
                       "aft angle: " \o Format3f(result[3]),
                       "stbd angle: " \o Format3f(result[4])>>
         /\ result = <<LocalsOf[Args].theta_1, LocalsOf[Args].theta_2,
                       LocalsOf[Args].theta_3, LocalsOf[Args].theta_4>>
         /\ cell = <<Omitted, Omitted, Omitted, Omitted>> =>
              stdout = <<"fore angle: 47.500", "port angle: 25.000",
                         "aft angle: 47.500", "stbd angle: 25.000">>

\* The output of the cell pitch=17.4 as the notebook shows it.
C9_Witness ==
    /\ Returned
    /\ cell = <<Omitted, Omitted, Tenths(174), Omitted>>
    /\ stdout = <<"fore angle: 30.100", "port angle: 30.136",
                  "aft angle: 64.900", "stbd angle: 30.136">>

\* C10: with roll 0 port and starboard are equal, with pitch 0 fore and aft
\* are equal; two calls that differ in port_starboard_angle alone return
\* the same fore and aft angles, two that differ in fore_aft_angle alone the
\* same port and starboard angles.
C10_PairsAndIndependence ==
    /\ (Returned /\ Args[4] = Zero) => result[2] = result[4]
    /\ (Returned /\ Args[3] = Zero) => result[1] = result[3]
    /\ (Returned /\ prev # None /\ Args[1] = PrevArgs[1] /\ Args[3] = PrevArgs[3]
          /\ Args[4] = PrevArgs[4])
       => result[1] = prev.result[1] /\ result[3] = prev.result[3]
    /\ (Returned /\ prev # None /\ Args[2] = PrevArgs[2] /\ Args[3] = PrevArgs[3]
          /\ Args[4] = PrevArgs[4])
       => result[2] = prev.result[2] /\ result[4] = prev.result[4]

\* Two calls at roll 0 that differ in fore_aft_angle alone: port and
\* starboard equal and unchanged, fore and aft changed.
C10_Witness ==
    /\ Returned
    /\ prev # None
    /\ cell = <<Tenths(548), Omitted, Tenths(220), Omitted>>
    /\ prev.cell = <<Tenths(521), Omitted, Tenths(220), Omitted>>
    /\ result[2] = result[4]
    /\ result[2] = prev.result[2]
    /\ result[1] # prev.result[1]
    /\ result[3] # prev.result[3]

=============================================================================
